---- MODULE Spec2Model ----
(***************************************************************************)
(* Model of Objects/Geometry.py (class Geometry): the lazily cached        *)
(* grid / surface / distance pipeline and the mesh post-processing calls.  *)
(*                                                                         *)
(* Conventions.  A nullable Python attribute is None (the empty tuple) or  *)
(* Some(v) (a one-element tuple).  Arrays over the sampling grid are       *)
(* sequences indexed by the flattened grid point.  A mesh array (verts,    *)
(* faces, normals, values) is abstracted to its length.  Every method is   *)
(* an operator from the object (and its arguments) to the SET of its       *)
(* possible results [g, calls, err]: the object after the call, the trace  *)
(* of the calls it made (own methods and external collaborators, in        *)
(* order) and the exception it ended with ("ok" for a normal return).  The *)
(* set has more than one element where an external collaborator decides.   *)
(***************************************************************************)
EXTENDS Integers, Sequences, FiniteSets, TLC

VARIABLES
    ds,     \* the DesignSpace object shared by every Geometry
    geoms,  \* the constructed Geometry objects, by identity
    last    \* the last call: operation, receiver, arguments, pre-state, trace, outcome

vars == <<ds, geoms, last>>

\* ---------------------------------------------------------------- bounds

\* translate is only applied while every coordinate of the position stays within +-MaxPos.
MaxPos == 1

\* subdivide_mesh is only applied while the refined mesh has at most MaxFaces faces.
MaxFaces == 16

\* convertToCylindrical is applied at most MaxConv times to one object.
MaxConv == 1

\* ---------------------------------------------------------------- values

None == <<>>

Some(v) == <<v>>

Val(o) == o[1]

Abs(n) == IF n < 0 THEN -n ELSE n

RECURSIVE SeqMin(_)
SeqMin(s) ==
    IF Len(s) = 1 THEN s[1]
    ELSE LET m == SeqMin(Tail(s)) IN IF s[1] < m THEN s[1] ELSE m

RECURSIVE SeqMax(_)
SeqMax(s) ==
    IF Len(s) = 1 THEN s[1]
    ELSE LET m == SeqMax(Tail(s)) IN IF s[1] > m THEN s[1] ELSE m

\* numpy.maximum(a, b), elementwise
Maximum(a, b) == [i \in DOMAIN a |-> IF a[i] > b[i] THEN a[i] ELSE b[i]]

Ok == "ok"

\* shared: the design space after the call.  A method reaches the design
\* space's arrays through its own attributes (__init__ binds them by
\* reference); one that only rebinds its attributes leaves them as they are.
Result(g, calls, err) == [g |-> g, calls |-> calls, err |-> err, shared |-> ds]

Call(fn, arg) == [fn |-> fn, arg |-> arg]

\* ---------------------------------------------------------------- DesignSpace

\* A 2x2x2 sampling lattice, flattened; the three axes have different steps so
\* that the axes cannot be confused.
DesignSpace ==
    [ x_lower |-> 0, x_upper |-> 1, y_lower |-> 0, y_upper |-> 2,
      z_lower |-> 0, z_upper |-> 3,
      x_step |-> 1, y_step |-> 2, z_step |-> 3,
      resolution |-> 2,
      x_grid |-> <<0, 0, 0, 0, 1, 1, 1, 1>>,
      y_grid |-> <<0, 0, 2, 2, 0, 0, 2, 2>>,
      z_grid |-> <<0, 3, 0, 3, 0, 3, 0, 3>> ]

\* ---------------------------------------------------------------- Geometry

\* __init__ as it would be if it took the steps of the wrong axes.
init_swapping_steps(design_space) ==
    [ x |-> 0, y |-> 0, z |-> 0,
      verts |-> None, faces |-> None,
      x_grid |-> design_space.x_grid,
      y_grid |-> design_space.y_grid,
      z_grid |-> design_space.z_grid,
      x_step |-> design_space.x_step,
      y_step |-> design_space.z_step,
      z_step |-> design_space.y_step,
      name |-> <<"S">>,
      x_limits |-> None, y_limits |-> None, z_limits |-> None,
      evaluated_grid |-> None, evaluated_distance |-> None,
      filename |-> None,
      normals |-> None, values |-> None, gradient_grid |-> None,
      nconv |-> 0 ]

\* Geometry.__init__ with a design space that is not None (the None case is
\* the raise in Construct).
init(design_space) ==
    [ x |-> 0, y |-> 0, z |-> 0,
      verts |-> None, faces |-> None,
      x_grid |-> design_space.x_grid,
      y_grid |-> design_space.y_grid,
      z_grid |-> design_space.z_grid,
      x_step |-> design_space.x_step,
      y_step |-> design_space.y_step,
      z_step |-> design_space.z_step,
      name |-> <<"S">>,
      x_limits |-> None, y_limits |-> None, z_limits |-> None,
      evaluated_grid |-> None, evaluated_distance |-> None,
      filename |-> None,
      \* attributes that __init__ does not create
      normals |-> None, values |-> None, gradient_grid |-> None,
      \* ghost: how often the coordinate arrays were converted
      nconv |-> 0 ]

\* A primitive shape's evaluate_point: a sphere of squared radius 1 about the
\* object's position, sampled at the given coordinate arrays.
evaluate_point(self, x, y, z) ==
    [i \in DOMAIN x |->
        (x[i] - self.x) * (x[i] - self.x) + (y[i] - self.y) * (y[i] - self.y)
        + (z[i] - self.z) * (z[i] - self.z) - 1]

\* A primitive shape's set_limits: the bounding box of the sphere.
set_limits(self) ==
    [self EXCEPT !.x_limits = Some(<<self.x - 1, self.x + 1>>),
                 !.y_limits = Some(<<self.y - 1, self.y + 1>>),
                 !.z_limits = Some(<<self.z - 1, self.z + 1>>)]

\* translate as it would be with an invalidation of the caches that misses faces.
translate_dropping_verts(self, x, y, z) ==
    LET moved == [self EXCEPT !.x = self.x + x, !.y = self.y + y, !.z = self.z + z,
                              !.evaluated_grid = None, !.evaluated_distance = None,
                              !.verts = None]
    IN  { Result(set_limits(moved), <<Call("set_limits", <<>>)>>, Ok) }

\* Geometry.translate
translate(self, x, y, z) ==
    LET moved == [self EXCEPT !.x = self.x + x, !.y = self.y + y, !.z = self.z + z]
    IN  { Result(set_limits(moved), <<Call("set_limits", <<>>)>>, Ok) }

\* evaluate_grid as it would be with a guard that skips a populated cache.
evaluate_grid_guarded(self, verbose, gradients) ==
    IF self.evaluated_grid # None THEN { Result(self, <<>>, Ok) }
    ELSE
    LET field == evaluate_point(self, self.x_grid, self.y_grid, self.z_grid)
    IN  { Result([self EXCEPT !.evaluated_grid = Some(field)],
                 <<Call("evaluate_point",
                        <<self.x, self.y, self.z, self.x_grid, self.y_grid, self.z_grid>>)>>,
                 Ok) }

\* evaluate_grid as it would be if it added the sample to a populated cache.
evaluate_grid_accumulating(self, verbose, gradients) ==
    LET sample == evaluate_point(self, self.x_grid, self.y_grid, self.z_grid)
        field == IF self.evaluated_grid = None THEN sample
                 ELSE [i \in DOMAIN sample |-> Val(self.evaluated_grid)[i] + sample[i]]
    IN  { Result([self EXCEPT !.evaluated_grid = Some(field)],
                 <<Call("evaluate_point",
                        <<self.x, self.y, self.z, self.x_grid, self.y_grid, self.z_grid>>)>>,
                 Ok) }

\* Geometry.evaluate_grid
evaluate_grid(self, verbose, gradients) ==
    LET field == evaluate_point(self, self.x_grid, self.y_grid, self.z_grid)
        g1 == [self EXCEPT !.evaluated_grid = Some(field)]
        g2 == IF gradients
              THEN [g1 EXCEPT !.gradient_grid = Some(<<field, ds.resolution>>)]
              ELSE g1
    IN  { Result(g2,
                 <<Call("evaluate_point",
                        <<self.x, self.y, self.z, self.x_grid, self.y_grid, self.z_grid>>)>>,
                 Ok) }

\* ---------------------------------------------------------------- collaborators

\* The meshes the isosurface extractor may return (vertex and face counts of a
\* closed surface: a tetrahedron, an octahedron).
Surfaces == { [nv |-> 4, nf |-> 4], [nv |-> 6, nf |-> 8] }

\* skimage.measure.marching_cubes(volume, level, spacing): fails when the level
\* is outside the volume's data range, otherwise returns verts, faces, normals
\* and values (normals and values hold one entry per vertex).
marching_cubes(volume, level, spacing) ==
    IF level < SeqMin(volume) \/ level > SeqMax(volume)
    THEN { [ok |-> FALSE] }
    ELSE { [ok |-> TRUE, verts |-> m.nv, faces |-> m.nf, normals |-> m.nv, values |-> m.nv]
           : m \in Surfaces }

\* skfmm.distance(phi, dx): fails when phi has no zero contour, otherwise
\* returns the distance field of phi under the spacing dx.
distance(phi, dx) ==
    IF (\A i \in DOMAIN phi : phi[i] > 0) \/ (\A i \in DOMAIN phi : phi[i] < 0)
    THEN { [ok |-> FALSE] }
    ELSE { [ok |-> TRUE, field |-> [phi |-> phi, dx |-> dx]] }

\* ---------------------------------------------------------------- pipeline

\* The results of a nested call of one of the object's own methods, with the
\* call itself put in front of what it called.
Nested(fn, arg, results) ==
    { Result(r.g, <<Call(fn, arg)>> \o r.calls, r.err) : r \in results }

\* The on-demand evaluation as it would be without its None check.
grid_always(self) ==
    Nested("evaluate_grid", <<>>, evaluate_grid(self, TRUE, FALSE))

\* "if self.evaluated_grid is None: self.evaluate_grid()"
grid_on_demand(self) ==
    IF self.evaluated_grid = None
    THEN Nested("evaluate_grid", <<>>, evaluate_grid(self, TRUE, FALSE))
    ELSE { Result(self, <<>>, Ok) }

\* Geometry.evaluateDistance
evaluateDistance(self) ==
    UNION { IF r.err # Ok THEN {r}
            ELSE LET dx == <<ds.x_step, ds.y_step, ds.z_step>>
                     phi == Val(r.g.evaluated_grid)
                     call == Call("skfmm.distance", <<phi, dx>>)
                 IN  { IF d.ok
                       THEN Result([r.g EXCEPT !.evaluated_distance = Some(d.field)],
                                   Append(r.calls, call), Ok)
                       ELSE Result(r.g, Append(r.calls, call), "ValueError: distance")
                       : d \in distance(phi, dx) }
            : r \in grid_on_demand(self) }

\* The try block of findSurface as it would be if the handler reset the mesh.
extract_resetting(r, level) ==
    IF r.err # Ok THEN {r}
    ELSE LET spacing == <<r.g.x_step, r.g.y_step, r.g.z_step>>
             volume == Val(r.g.evaluated_grid)
             call == Call("marching_cubes", <<volume, level, spacing>>)
         IN  { IF m.ok
               THEN Result([r.g EXCEPT !.verts = Some(m.verts),
                                       !.faces = Some(m.faces),
                                       !.normals = Some(m.normals),
                                       !.values = Some(m.values)],
                           Append(r.calls, call), Ok)
               ELSE Result([r.g EXCEPT !.verts = None, !.faces = None,
                                       !.normals = None, !.values = None],
                           Append(r.calls, call), "ValueError: no isosurface")
               : m \in marching_cubes(volume, level, spacing) }

\* The try block of findSurface, after the grid was put in place by r: the
\* four attributes are assigned together once the extractor has returned.
extract(r, level) ==
    IF r.err # Ok THEN {r}
    ELSE LET spacing == <<r.g.x_step, r.g.y_step, r.g.z_step>>
             volume == Val(r.g.evaluated_grid)
             call == Call("marching_cubes", <<volume, level, spacing>>)
         IN  { IF m.ok
               THEN Result([r.g EXCEPT !.verts = Some(m.verts),
                                       !.faces = Some(m.faces),
                                       !.normals = Some(m.normals),
                                       !.values = Some(m.values)],
                           Append(r.calls, call), Ok)
               ELSE Result(r.g, Append(r.calls, call), "ValueError: no isosurface")
               : m \in marching_cubes(volume, level, spacing) }

\* Geometry.findSurface
findSurface(self, level) ==
    UNION { extract(r, level) : r \in grid_on_demand(self) }

\* ---------------------------------------------------------------- mesh collaborators

\* A factor argument is the rational num/den (den > 0).
Factor(num, den) == [num |-> num, den |-> den]

\* Python's round(n * factor) for an integer n: to the nearest integer, a tie
\* to the even one.
round_times(n, factor) ==
    LET p == n * factor.num
        q == factor.den
        lo == p \div q
        rem == p % q
    IN  IF 2 * rem < q THEN lo
        ELSE IF 2 * rem > q THEN lo + 1
        ELSE IF lo % 2 = 0 THEN lo ELSE lo + 1

\* The vertex count of a closed surface of nf faces (Euler: V = 2 + F/2).
VertsOf(nf) == IF nf = 0 THEN 0 ELSE 2 + nf \div 2

\* igl.qslim(verts, faces, target): raises, or returns a success flag with the
\* reduced mesh: the target reached, nothing removed, or an empty mesh.
qslim(verts, faces, target) ==
    { [ok |-> FALSE] }
    \cup { [ok |-> TRUE, success |-> TRUE, verts |-> VertsOf(target), faces |-> target] }
    \cup { [ok |-> TRUE, success |-> FALSE, verts |-> verts, faces |-> faces] }
    \cup { [ok |-> TRUE, success |-> FALSE, verts |-> 0, faces |-> 0] }

\* igl.orientable_patches followed by igl.orient_outward: raises, or returns
\* the faces re-oriented (as many as before).
orient_outward(verts, faces) ==
    { [ok |-> FALSE], [ok |-> TRUE, faces |-> faces] }

RECURSIVE Pow4(_)
Pow4(n) == IF n <= 0 THEN 1 ELSE 4 * Pow4(n - 1)

\* igl.loop(verts, faces, divs): raises, or returns the mesh with every face
\* split in four, divs times.
loop(verts, faces, divs) ==
    { [ok |-> FALSE],
      [ok |-> TRUE, verts |-> VertsOf(faces * Pow4(divs)), faces |-> faces * Pow4(divs)] }

\* igl.write_triangle_mesh(filename, verts, faces) and the state of the file
\* afterwards: written, or not written (a file of that name may exist from
\* before, or not).
write_triangle_mesh(filename, verts, faces) ==
    { [written |-> TRUE, exists |-> TRUE],
      [written |-> FALSE, exists |-> TRUE],
      [written |-> FALSE, exists |-> FALSE] }

\* Tetrahedralizer.tetrahedralize: returns or raises.
tetrahedralize(verts, faces) == { [ok |-> TRUE], [ok |-> FALSE] }

\* ---------------------------------------------------------------- mesh pipeline

no_mesh(self) == self.verts = None \/ self.faces = None

\* decimate_mesh from the computation of the target on: the simplifier, the
\* assertion on its result, the re-orientation and the report.
simplify(self, factor) ==
    LET target == round_times(Val(self.faces), factor)
        c1 == <<Call("igl.qslim", <<Val(self.verts), Val(self.faces), target>>)>>
    IN  UNION {
          IF ~q.ok THEN { Result(self, c1, "Error: qslim") }
          ELSE
          LET g1 == [self EXCEPT !.verts = Some(q.verts), !.faces = Some(q.faces)]
              c2 == Append(c1, Call("igl.orient_outward", <<q.verts, q.faces>>))
          IN  IF ~(q.faces > 0) THEN { Result(g1, c1, "AssertionError: qslim failure") }
              ELSE { IF ~o.ok THEN Result(g1, c2, "Error: orient")
                     ELSE Result([g1 EXCEPT !.faces = Some(o.faces)],
                                 Append(c2, Call("print",
                                     IF q.success THEN "Mesh decimated"
                                     ELSE "Decimation did not reach target factor")),
                                 Ok)
                     : o \in orient_outward(q.verts, q.faces) }
          : q \in qslim(Val(self.verts), Val(self.faces), target) }

\* decimate_mesh as it would be with "factor <= 1" in its assertion.
decimate_mesh_inclusive(self, factor) ==
    IF no_mesh(self) THEN { Result(self, <<>>, "ValueError: no mesh") }
    ELSE IF ~(factor.num <= factor.den /\ factor.num > 0)
    THEN { Result(self, <<>>, "AssertionError: factor") }
    ELSE simplify(self, factor)

\* Geometry.decimate_mesh
decimate_mesh(self, factor) ==
    IF no_mesh(self) THEN { Result(self, <<>>, "ValueError: no mesh") }
    ELSE IF ~(factor.num < factor.den /\ factor.num > 0)
    THEN { Result(self, <<>>, "AssertionError: factor") }
    ELSE simplify(self, factor)

\* Geometry.subdivide_mesh
subdivide_mesh(self, divs) ==
    IF no_mesh(self) THEN { Result(self, <<>>, "ValueError: no mesh") }
    ELSE
    LET c1 == <<Call("igl.loop", <<Val(self.verts), Val(self.faces), divs>>)>>
    IN  { IF ~l.ok THEN Result(self, c1, "Error: loop")
          ELSE Result([self EXCEPT !.verts = Some(l.verts), !.faces = Some(l.faces)], c1, Ok)
          : l \in loop(Val(self.verts), Val(self.faces), divs) }

\* A call made after the calls of r, on the object r left: r's error ends it.
Then(r, fn, arg, results) ==
    IF r.err # Ok THEN {r}
    ELSE { Result(n.g, r.calls \o <<Call(fn, arg)>> \o n.calls, n.err) : n \in results }

\* The loop of smooth_mesh as it would be with the two calls of its body in
\* the other order.
RECURSIVE smooth_rounds_decimating_first(_, _, _)
smooth_rounds_decimating_first(r, iterations, factor) ==
    IF r.err # Ok \/ iterations <= 0 THEN {r}
    ELSE UNION { UNION { smooth_rounds_decimating_first(s, iterations - 1, factor)
                         : s \in Then(d, "subdivide_mesh", <<>>, subdivide_mesh(d.g, 1)) }
                 : d \in Then(r, "decimate_mesh", <<factor>>, decimate_mesh(r.g, factor)) }

\* The body of smooth_mesh's loop, run for the remaining iterations.
RECURSIVE smooth_rounds(_, _, _)
smooth_rounds(r, iterations, factor) ==
    IF r.err # Ok \/ iterations <= 0 THEN {r}
    ELSE UNION { UNION { smooth_rounds(d, iterations - 1, factor)
                         : d \in Then(s, "decimate_mesh", <<factor>>,
                                      decimate_mesh(s.g, factor)) }
                 : s \in Then(r, "subdivide_mesh", <<>>, subdivide_mesh(r.g, 1)) }

\* smooth_mesh as it would be without its own check of the mesh.
smooth_mesh_unchecked(self, iterations, factor) ==
    smooth_rounds(Result(self, <<>>, Ok), iterations, factor)

\* Geometry.smooth_mesh
smooth_mesh(self, iterations, factor) ==
    IF no_mesh(self) THEN { Result(self, <<>>, "ValueError: no mesh") }
    ELSE smooth_rounds(Result(self, <<>>, Ok), iterations, factor)

\* ---------------------------------------------------------------- export

\* A file name is the sequence of its characters.
Stl == <<".", "s", "t", "l">>

Obj == <<".", "o", "b", "j">>

Msh == <<".", "m", "s", "h">>

\* The dict "formats" of save_mesh.
formats == [f \in {"obj", "stl", ".stl", ".obj"} |-> IF f \in {"obj", ".obj"} THEN Obj ELSE Stl]

\* "if self.faces is None or self.verts is None: self.findSurface()"
surface_on_demand(r, absent, level, arg) ==
    IF r.err # Ok THEN {r}
    ELSE IF absent THEN Then(r, "findSurface", arg, findSurface(r.g, level))
    ELSE {r}

\* The end of save_mesh as it would be if the failed open were swallowed.
write_unverified(r) ==
    IF r.err # Ok THEN {r}
    ELSE LET c1 == Append(r.calls, Call("igl.write_triangle_mesh",
                             <<r.g.filename, r.g.verts, r.g.faces>>))
             opened(w) == Call("open", <<r.g.filename, w.exists>>)
         IN  { Result(r.g, Append(c1, opened(w)), Ok)
               : w \in write_triangle_mesh(r.g.filename, r.g.verts, r.g.faces) }

\* The end of save_mesh, after the mesh was put in place by r: the writer,
\* then the reopening of the file (the call of open is recorded with its
\* outcome: whether the file could be opened).
write_and_verify(r) ==
    IF r.err # Ok THEN {r}
    ELSE LET c1 == Append(r.calls, Call("igl.write_triangle_mesh",
                             <<r.g.filename, r.g.verts, r.g.faces>>))
             opened(w) == Call("open", <<r.g.filename, w.exists>>)
         IN  { IF w.exists THEN Result(r.g, Append(c1, opened(w)), Ok)
               ELSE Result(r.g, Append(c1, opened(w)), "FileNotFoundError")
               : w \in write_triangle_mesh(r.g.filename, r.g.verts, r.g.faces) }

\* Geometry.save_mesh
save_mesh(self, filename, file_format) ==
    IF file_format \notin DOMAIN formats
    THEN { Result(self, <<>>, "ValueError: unsupported format") }
    ELSE
    LET named == [self EXCEPT !.filename =
                      IF filename = None THEN Some(self.name \o formats[file_format])
                      ELSE Some(Val(filename) \o formats[file_format])]
    IN  UNION { write_and_verify(r)
                : r \in surface_on_demand(Result(named, <<>>, Ok), no_mesh(named), 0, <<>>) }

\* Python's filename[:-4]
DropLast4(f) == SubSeq(f, 1, Len(f) - 4)

\* Geometry.save_tet_mesh
save_tet_mesh(self, filename, edge_length_r, epsilon) ==
    LET named == [self EXCEPT !.filename =
                      IF filename = None THEN Some(self.name \o Msh)
                      ELSE IF DropLast4(Val(filename)) # Msh THEN Some(Val(filename) \o Msh)
                      ELSE self.filename]
        c0 == <<Call("Tetrahedralizer", <<50, edge_length_r, epsilon>>)>>
    IN  UNION {
          IF r.err # Ok THEN {r}
          ELSE LET c1 == Append(r.calls, Call("tetra.set_mesh", <<r.g.verts, r.g.faces>>))
                   c2 == Append(c1, Call("tetra.tetrahedralize", <<>>))
                   c3 == Append(c2, Call("tetra.save", <<r.g.filename>>))
               IN  { IF ~t.ok THEN Result(r.g, c2, "Error: tetrahedralize")
                     ELSE IF r.g.filename = None THEN Result(r.g, c3, "TypeError: save(None)")
                     ELSE Result(r.g, c3, Ok)
                     : t \in tetrahedralize(r.g.verts, r.g.faces) }
          : r \in surface_on_demand(Result(named, c0, Ok), named.verts = None, 0, <<>>) }

\* ---------------------------------------------------------------- preview

\* Geometry.compare_limits: the axes it warns about; min(None) raises.
compare_limits(self) ==
    IF self.x_limits = None THEN [err |-> "TypeError: limits", warned |-> <<>>]
    ELSE
    LET out(lim, lower, upper) == Val(lim)[1] < lower \/ Val(lim)[2] > upper
        wx == IF out(self.x_limits, ds.x_lower, ds.x_upper) THEN <<"x">> ELSE <<>>
        wy == IF out(self.y_limits, ds.y_lower, ds.y_upper) THEN <<"y">> ELSE <<>>
        wz == IF out(self.z_limits, ds.z_lower, ds.z_upper) THEN <<"z">> ELSE <<>>
    IN  [err |-> Ok, warned |-> wx \o wy \o wz]

\* The clipping block of previewModel.
clipped(self, clip, clip_value, flip_clip) ==
    LET grid == Val(self.evaluated_grid)
        plane(axis) == IF flip_clip THEN [i \in DOMAIN axis |-> clip_value - axis[i]]
                       ELSE [i \in DOMAIN axis |-> axis[i] - clip_value]
    IN  IF clip = "x" THEN [self EXCEPT !.evaluated_grid = Some(Maximum(grid, plane(self.x_grid)))]
        ELSE IF clip = "y" THEN [self EXCEPT !.evaluated_grid = Some(Maximum(grid, plane(self.z_grid)))]
        ELSE IF clip = "z" THEN [self EXCEPT !.evaluated_grid = Some(Maximum(grid, plane(self.y_grid)))]
        ELSE self

\* Geometry.previewModel
previewModel(self, clip, clip_value, flip_clip, mode, level) ==
    IF mode \notin {"volume", "surface"} THEN { Result(self, <<>>, "AssertionError: mode") }
    ELSE
    LET lim == compare_limits(self)
        c0 == <<Call("compare_limits", lim.warned)>>
    IN  IF lim.err # Ok THEN { Result(self, c0, lim.err) }
        ELSE
        UNION {
          LET cut == Result(clipped(e.g, clip, clip_value, flip_clip), c0 \o e.calls, Ok)
          IN  IF mode = "volume"
              THEN { Result(cut.g,
                            cut.calls \o <<Call("ml.pipeline.volume",
                                 <<cut.g.evaluated_grid, cut.g.x_step, cut.g.y_step, cut.g.z_step>>),
                               Call("ml.show", <<>>)>>,
                            Ok) }
              ELSE { IF r.err # Ok THEN r
                     ELSE Result(r.g,
                                 r.calls \o <<Call("ml.triangular_mesh", <<r.g.verts, r.g.faces>>),
                                              Call("ml.show", <<>>)>>,
                                 Ok)
                     : r \in surface_on_demand(cut, no_mesh(cut.g), level, <<level>>) }
          : e \in grid_on_demand(self) }

\* ---------------------------------------------------------------- coordinate systems

\* sqrt on the integer grid values: the integer square root.
RECURSIVE SqrtFrom(_, _)
SqrtFrom(n, r) == IF (r + 1) * (r + 1) > n THEN r ELSE SqrtFrom(n, r + 1)

sqrt(n) == SqrtFrom(n, 0)

\* arctan2(y, x) in units of 45 degrees, in -4..4, rounded to the nearest unit
\* (tan 22.5 degrees taken as 5/12); arctan2(0, 0) = 0.
arctan2(y, x) ==
    LET ax == Abs(x)
        ay == Abs(y)
        \* the angle of (ax, ay) in the first quadrant: 0, 1 or 2 units
        q == IF ax = 0 /\ ay = 0 THEN 0
             ELSE IF 12 * ay < 5 * ax THEN 0
             ELSE IF 12 * ax < 5 * ay THEN 2
             ELSE 1
        h == IF x >= 0 THEN q ELSE 4 - q
    IN  IF y > 0 \/ (y = 0 /\ x >= 0) THEN h
        ELSE IF y = 0 THEN 4
        ELSE -h

\* convertToCylindrical as it would be if it wrote the transformed
\* coordinates into the arrays it was bound to ("self.x_grid[:] = r").
convertToCylindrical_in_place(self) ==
    LET x_grid == self.x_grid
        y_grid == self.y_grid
        r == [i \in DOMAIN x_grid |-> sqrt(x_grid[i] * x_grid[i] + y_grid[i] * y_grid[i])]
        az == [i \in DOMAIN x_grid |-> arctan2(y_grid[i], x_grid[i])]
        g1 == [self EXCEPT !.x_grid = r, !.y_grid = az, !.nconv = self.nconv + 1]
        done == Result([g1 EXCEPT !.evaluated_grid =
                            Some(evaluate_point(g1, g1.x_grid, g1.y_grid, g1.z_grid))],
                       <<Call("evaluate_point",
                              <<g1.x, g1.y, g1.z, g1.x_grid, g1.y_grid, g1.z_grid>>)>>,
                       Ok)
    IN  { IF self.nconv = 0
          THEN [done EXCEPT !.shared = [ds EXCEPT !.x_grid = r, !.y_grid = az]]
          ELSE done }

\* Geometry.convertToCylindrical
convertToCylindrical(self) ==
    LET x_grid == self.x_grid
        y_grid == self.y_grid
        r == [i \in DOMAIN x_grid |-> sqrt(x_grid[i] * x_grid[i] + y_grid[i] * y_grid[i])]
        az == [i \in DOMAIN x_grid |-> arctan2(y_grid[i], x_grid[i])]
        g1 == [self EXCEPT !.x_grid = r, !.y_grid = az, !.nconv = self.nconv + 1]
    IN  { Result([g1 EXCEPT !.evaluated_grid =
                      Some(evaluate_point(g1, g1.x_grid, g1.y_grid, g1.z_grid))],
                 <<Call("evaluate_point",
                        <<g1.x, g1.y, g1.z, g1.x_grid, g1.y_grid, g1.z_grid>>)>>,
                 Ok) }

\* Geometry.convertToSpherical: numexpr looks the names x_grid, y_grid and
\* z_grid up in the caller's frame, whose locals are XX, YY and ZZ: the first
\* evaluate raises before anything is assigned.
convertToSpherical(self) == { Result(self, <<>>, "KeyError: x_grid") }

\* ---------------------------------------------------------------- DoubleGyroidNetwork

\* Volume fractions are counted in per cent (the ones used are even, so that
\* halving them is exact).
One == 100

Half == 50

\* Lattice.__init__ followed by the assignment of coordSys: the attributes
\* evaluatePoint reads.  XX, YY, ZZ are the design space's coordinate arrays.
DoubleGyroidNetwork(designSpace, x, y, z, vf) ==
    [ designSpace |-> "ds", x |-> x, y |-> y, z |-> z,
      nx |-> 1, ny |-> 1, nz |-> 1, lx |-> 1, ly |-> 1, lz |-> 1,
      vf |-> vf, transform |-> None, coordSys |-> "car",
      XX |-> designSpace.x_grid, YY |-> designSpace.y_grid, ZZ |-> designSpace.z_grid ]

\* GyroidSurface(designSpace, x, y, z, nx, ny, nz, lx, ly, lz, vf)
GyroidSurface(self, vf) == [self EXCEPT !.vf = vf]

\* GyroidSurface.evaluatePoint: a closed-form function of the point relative
\* to the shape's position, offset by a level that grows with the volume
\* fraction.
GyroidSurface_evaluatePoint(shape, x, y, z) ==
    LET u == x - shape.x
        v == y - shape.y
        w == z - shape.z
    IN  u * v + v * w + w * u - shape.vf

\* The shape A - B and its evaluatePoint: (A - B)(p) = A(p) - B(p).
Difference(a, b) == [shapes |-> <<a, b>>]

Difference_evaluatePoint(lattice, x, y, z) ==
    GyroidSurface_evaluatePoint(lattice.shapes[1], x, y, z)
    - GyroidSurface_evaluatePoint(lattice.shapes[2], x, y, z)

\* Lattice.transformInputs: the transform is a translation of the inputs.
transformInputs(self, x, y, z) ==
    <<x - Val(self.transform)[1], y - Val(self.transform)[2], z - Val(self.transform)[3]>>

\* "vf = 1 - self.vf" as it would be if the object's own fraction were taken.
network_vf_own(self) == self.vf

\* "vf = 1 - self.vf"
network_vf(self) == One - self.vf

\* DoubleGyroidNetwork.evaluatePoint for coordSys = 'car', the only value
\* the class assigns: the operands it builds, in order, and the value it
\* returns.
evaluatePoint(self, x, y, z) ==
    LET p == IF self.coordSys = "car" /\ self.transform # None
             THEN transformInputs(self, x, y, z)
             ELSE <<x, y, z>>
        vf == network_vf(self)
        vfHigh == Half + vf \div 2
        vfLow == Half - vf \div 2
        lattice == Difference(GyroidSurface(self, vfHigh), GyroidSurface(self, vfLow))
        shapes == [i \in DOMAIN lattice.shapes |->
                      [lattice.shapes[i] EXCEPT !.XX = self.XX, !.YY = self.YY, !.ZZ = self.ZZ]]
        shared == [lattice EXCEPT !.shapes = shapes]
    IN  [ calls |-> <<Call("GyroidSurface", <<vfHigh>>), Call("GyroidSurface", <<vfLow>>),
                      Call("lattice.evaluatePoint", p)>>,
          value |-> 0 - Difference_evaluatePoint(shared, p[1], p[2], p[3]) ]

\* ---------------------------------------------------------------- inputs

Lattices == {"L1"}

VolumeFractions == {20, 40, 50, 80}

Centres == {0, 1}

Samples == 0..2

Objects == {"G1"}

Deltas == { <<1, -1, 1>>, <<-1, 1, -1>> }

Levels == {0, 2, 50}

Gradients == BOOLEAN

Factors == { Factor(1, 4), Factor(1, 2), Factor(0, 1), Factor(1, 1), Factor(5, 4) }

Divisions == {1}

Iterations == {0, 1, 2}

SmoothFactors == { Factor(1, 2), Factor(1, 1) }

MeshNames == { None, Some(<<"a">> \o Stl) }

MeshFormats == {"stl", "ply"}

TetNames == { None }

NoClip == [clip |-> "None", clip_value |-> 0, flip_clip |-> FALSE]

XClip == [clip |-> "x", clip_value |-> 1, flip_clip |-> FALSE]

Clips == { NoClip, XClip }

Modes == {"volume", "surface", "wireframe"}

\* File names without an extension, and with the extension of the format.
ExportNames == { None, Some(<<"a">>), Some(<<"a">> \o Stl) }

\* File names for the tetrahedral export: none, without and with ".msh", and
\* one that starts with ".msh" and has four more characters.
TetExportNames ==
    { None, Some(<<"a">>), Some(<<"a">> \o Msh), Some(Msh \o <<"a", "b", "c", "d">>) }

\* A clip on every axis, one of them flipped.
AxisClips ==
    { NoClip, XClip,
      [clip |-> "y", clip_value |-> 1, flip_clip |-> FALSE],
      [clip |-> "z", clip_value |-> 1, flip_clip |-> TRUE] }

\* ---------------------------------------------------------------- actions

\* One completed call of a method on object g with result r.
\* The other objects see the design space's arrays through the references
\* their __init__ took: x_grid and y_grid until a conversion rebinds them.
Aliased(other, shared) ==
    IF other.nconv = 0
    THEN [other EXCEPT !.x_grid = shared.x_grid, !.y_grid = shared.y_grid,
                       !.z_grid = shared.z_grid]
    ELSE [other EXCEPT !.z_grid = shared.z_grid]

\* The record of a call: repeat says that it follows a call of the same
\* method on the same object that returned normally.
Record(op, g, args, calls, err) ==
    [op |-> op, obj |-> g, args |-> args, pre |-> geoms, pre_ds |-> ds,
     calls |-> calls, err |-> err,
     repeat |-> (last.op = op /\ last.obj = g /\ last.err = Ok)]

Returned(op, g, args, r) ==
    /\ geoms' = [h \in DOMAIN geoms |-> IF h = g THEN r.g ELSE Aliased(geoms[h], r.shared)]
    /\ last' = Record(op, g, args, r.calls, r.err)
    /\ ds' = r.shared

\* Geometry(design_space): raises on a None design space, otherwise yields a
\* new object.
Construct(g) ==
    /\ g \notin DOMAIN geoms
    /\ \E given \in {"None", "ds"} :
         /\ geoms' = IF given = "None" THEN geoms ELSE (g :> init(ds)) @@ geoms
         /\ last' = Record("__init__", g, [design_space |-> given], <<>>,
                            IF given = "None" THEN "ValueError: no design space" ELSE Ok)
    /\ UNCHANGED ds

Translate(g, deltas) ==
    /\ g \in DOMAIN geoms
    /\ \E d \in deltas :
         /\ Abs(geoms[g].x + d[1]) <= MaxPos
         /\ Abs(geoms[g].y + d[2]) <= MaxPos
         /\ Abs(geoms[g].z + d[3]) <= MaxPos
         /\ \E r \in translate(geoms[g], d[1], d[2], d[3]) :
              Returned("translate", g, [x |-> d[1], y |-> d[2], z |-> d[3]], r)

EvaluateGrid(g, grads) ==
    /\ g \in DOMAIN geoms
    /\ \E gradients \in grads :
         \E r \in evaluate_grid(geoms[g], TRUE, gradients) :
            Returned("evaluate_grid", g, [gradients |-> gradients], r)

FindSurface(g, levels) ==
    /\ g \in DOMAIN geoms
    /\ \E level \in levels :
         \E r \in findSurface(geoms[g], level) :
            Returned("findSurface", g, [level |-> level], r)

EvaluateDistance(g) ==
    /\ g \in DOMAIN geoms
    /\ \E r \in evaluateDistance(geoms[g]) :
         Returned("evaluateDistance", g, <<>>, r)

DecimateMesh(g, factors) ==
    /\ g \in DOMAIN geoms
    /\ \E factor \in factors :
         \E r \in decimate_mesh(geoms[g], factor) :
            Returned("decimate_mesh", g, [factor |-> factor], r)

\* The faces a mesh attribute holds (none when it is absent).
FaceCount(self) == IF self.faces = None THEN 0 ELSE Val(self.faces)

SubdivideMesh(g, divisions) ==
    /\ g \in DOMAIN geoms
    /\ \E divs \in divisions :
         /\ FaceCount(geoms[g]) * Pow4(divs) <= MaxFaces
         /\ \E r \in subdivide_mesh(geoms[g], divs) :
              Returned("subdivide_mesh", g, [divs |-> divs], r)

SmoothMesh(g, rounds, factors) ==
    /\ g \in DOMAIN geoms
    /\ \E iterations \in rounds, factor \in factors :
         /\ FaceCount(geoms[g]) * Pow4(iterations) <= MaxFaces
         /\ \E r \in smooth_mesh(geoms[g], iterations, factor) :
              Returned("smooth_mesh", g, [iterations |-> iterations, factor |-> factor], r)

SaveMesh(g, names, fmts) ==
    /\ g \in DOMAIN geoms
    /\ \E filename \in names, file_format \in fmts :
         \E r \in save_mesh(geoms[g], filename, file_format) :
            Returned("save_mesh", g, [filename |-> filename, file_format |-> file_format], r)

SaveTetMesh(g, names) ==
    /\ g \in DOMAIN geoms
    /\ \E filename \in names :
         \E r \in save_tet_mesh(geoms[g], filename, "1/100", "1/1500") :
            Returned("save_tet_mesh", g, [filename |-> filename], r)

PreviewModel(g, clips, modes, levels) ==
    /\ g \in DOMAIN geoms
    /\ \E c \in clips, mode \in modes, level \in levels :
         \E r \in previewModel(geoms[g], c.clip, c.clip_value, c.flip_clip, mode, level) :
            Returned("previewModel", g,
                     [clip |-> c.clip, clip_value |-> c.clip_value,
                      flip_clip |-> c.flip_clip, mode |-> mode, level |-> level], r)

\* compare_limits called on its own: its prints are the calls it makes.
CompareLimits(g) ==
    /\ g \in DOMAIN geoms
    /\ LET lim == compare_limits(geoms[g])
       IN  Returned("compare_limits", g, <<>>,
                    Result(geoms[g],
                           IF lim.err = Ok THEN <<Call("print", lim.warned)>> ELSE <<>>,
                           lim.err))

ConvertToCylindrical(g) ==
    /\ g \in DOMAIN geoms
    /\ geoms[g].nconv < MaxConv
    /\ \E r \in convertToCylindrical(geoms[g]) :
         Returned("convertToCylindrical", g, <<>>, r)

ConvertToSpherical(g) ==
    /\ g \in DOMAIN geoms
    /\ \E r \in convertToSpherical(geoms[g]) :
         Returned("convertToSpherical", g, <<>>, r)

\* DoubleGyroidNetwork(designSpace, x, y, z, vf=vf)
ConstructLattice(l) ==
    /\ l \notin DOMAIN geoms
    /\ \E c \in Centres, vf \in VolumeFractions :
         /\ geoms' = (l :> DoubleGyroidNetwork(ds, c, 0, 0, vf)) @@ geoms
         /\ last' = Record("DoubleGyroidNetwork", l, [x |-> c, y |-> 0, z |-> 0, vf |-> vf],
                            <<>>, Ok)
    /\ UNCHANGED ds

\* evaluatePoint at one sample point: the value returned ends the trace.
EvaluatePoint(l) ==
    /\ l \in DOMAIN geoms
    /\ \E x \in Samples, y \in Samples, z \in Samples :
         LET r == evaluatePoint(geoms[l], x, y, z)
         IN  last' = Record("evaluatePoint", l, [x |-> x, y |-> y, z |-> z],
                            Append(r.calls, Call("return", r.value)), Ok)
    /\ UNCHANGED <<ds, geoms>>

\* ---------------------------------------------------------------- specification

Init ==
    /\ ds = DesignSpace
    /\ geoms = <<>>
    /\ last = [op |-> "none", obj |-> "none", args |-> <<>>, pre |-> <<>>,
               pre_ds |-> DesignSpace, calls |-> <<>>, err |-> Ok, repeat |-> FALSE]

\* The grid pipeline of one object: construction, translation, the lazily
\* cached grid, surface and distance, the coordinate conversions and the
\* clipping preview.
Next ==
    \E g \in Objects :
        \/ Construct(g)
        \/ Translate(g, Deltas)
        \/ EvaluateGrid(g, Gradients)
        \/ FindSurface(g, Levels)
        \/ EvaluateDistance(g)
        \/ PreviewModel(g, Clips, {"volume"}, {0})
        \/ ConvertToCylindrical(g)
        \/ ConvertToSpherical(g)

Spec == Init /\ [][Next]_vars

\* The mesh pipeline of one object: extraction, the mesh post-processing
\* calls and the exports, with the calls that move or re-sample the object.
NextMesh ==
    \E g \in Objects :
        \/ Construct(g)
        \/ FindSurface(g, {0, 50})
        \/ DecimateMesh(g, Factors)
        \/ SubdivideMesh(g, Divisions)
        \/ SmoothMesh(g, Iterations, SmoothFactors)
        \/ SaveMesh(g, MeshNames, MeshFormats)
        \/ SaveTetMesh(g, TetNames)
        \/ PreviewModel(g, {NoClip}, Modes, {0})
        \/ Translate(g, { <<1, -1, 1>> })
        \/ ConvertToCylindrical(g)
        \/ ConvertToSpherical(g)

SpecMesh == Init /\ [][NextMesh]_vars

\* Two objects bound to the same design space.
NextShared ==
    \E g \in {"G1", "G2"} :
        \/ Construct(g)
        \/ Translate(g, { <<1, -1, 1>> })
        \/ EvaluateGrid(g, {FALSE})
        \/ PreviewModel(g, {XClip}, {"volume"}, {0})
        \/ ConvertToCylindrical(g)
        \/ ConvertToSpherical(g)

SpecShared == Init /\ [][NextShared]_vars

\* The clipping preview of one object, with a clip on every axis, next to the
\* calls that move and re-sample it.
NextClip ==
    \E g \in Objects :
        \/ Construct(g)
        \/ Translate(g, Deltas)
        \/ EvaluateGrid(g, {FALSE})
        \/ CompareLimits(g)
        \/ PreviewModel(g, AxisClips, {"volume"}, {0})

SpecClip == Init /\ [][NextClip]_vars

\* The exports of one object under the file names a caller may give.
NextExport ==
    \E g \in Objects :
        \/ Construct(g)
        \/ FindSurface(g, {0})
        \/ SaveMesh(g, ExportNames, {"stl", "obj"})
        \/ SaveTetMesh(g, TetExportNames)

SpecExport == Init /\ [][NextExport]_vars

\* A double-network lattice evaluated at sample points.
NextLattice ==
    \E l \in Lattices :
        \/ ConstructLattice(l)
        \/ EvaluatePoint(l)

SpecLattice == Init /\ [][NextLattice]_vars

\* ---------------------------------------------------------------- reading the last call

\* The receiver of the last call, after and before it.
Now == geoms[last.obj]

Before == last.pre[last.obj]

\* The places in the last call's trace where fn was called.
CallsOf(fn) == { i \in DOMAIN last.calls : last.calls[i].fn = fn }

HasCall(fn) == CallsOf(fn) # {}

ValidFactor(f) == f.num > 0 /\ f.num < f.den

\* ---------------------------------------------------------------- C1

\* C1 (as claimed): translate adds the delta to the position, calls
\* set_limits and leaves the grid, surface and distance caches unset.
C1_TranslateInvalidatesCaches ==
    last.op = "translate" =>
        /\ Now.x = Before.x + last.args.x
        /\ Now.y = Before.y + last.args.y
        /\ Now.z = Before.z + last.args.z
        /\ HasCall("set_limits")
        /\ Now.evaluated_grid = None
        /\ Now.verts = None /\ Now.faces = None
        /\ Now.evaluated_distance = None

\* ---------------------------------------------------------------- C2

\* C2 (as claimed): evaluate_grid on an object whose grid cache is populated
\* samples nothing and leaves the cached field as it is.
C2_EvaluateGridNoOpWhenPopulated ==
    (last.op = "evaluate_grid" /\ Before.evaluated_grid # None) =>
        /\ ~HasCall("evaluate_point")
        /\ Now.evaluated_grid = Before.evaluated_grid

\* C2 (amended): evaluate_grid on an object whose grid cache is populated
\* samples evaluate_point once, over the object's coordinate arrays at its
\* position, and assigns the sample to the cache.
C2_EvaluateGridAlwaysResamples ==
    (last.op = "evaluate_grid" /\ Before.evaluated_grid # None) =>
        /\ last.err = Ok
        /\ last.calls = <<Call("evaluate_point",
                               <<Before.x, Before.y, Before.z,
                                 Before.x_grid, Before.y_grid, Before.z_grid>>)>>
        /\ Now.evaluated_grid
             = Some(evaluate_point(Before, Before.x_grid, Before.y_grid, Before.z_grid))

\* An evaluate_grid call that replaced a populated cache by a different field.
C2_Witness ==
    /\ last.op = "evaluate_grid"
    /\ Before.evaluated_grid # None
    /\ Now.evaluated_grid # Before.evaluated_grid

\* ---------------------------------------------------------------- C3

\* C3: an evaluate_grid call that directly follows an evaluate_grid call on
\* the same object leaves the cached field of the first call and changes
\* neither the position, the coordinate arrays, the mesh cache nor the
\* distance cache.
C3_EvaluateGridTwice ==
    (last.op = "evaluate_grid" /\ last.repeat) =>
        /\ Now.evaluated_grid = Before.evaluated_grid
        /\ <<Now.x, Now.y, Now.z>> = <<Before.x, Before.y, Before.z>>
        /\ <<Now.x_grid, Now.y_grid, Now.z_grid>>
             = <<Before.x_grid, Before.y_grid, Before.z_grid>>
        /\ <<Now.verts, Now.faces>> = <<Before.verts, Before.faces>>
        /\ Now.evaluated_distance = Before.evaluated_distance

\* A second evaluate_grid in a row, on a translated object that holds a mesh
\* and a distance field.
C3_Witness ==
    /\ last.op = "evaluate_grid"
    /\ last.repeat
    /\ Now.x # 0
    /\ Now.verts # None
    /\ Now.evaluated_distance # None

\* ---------------------------------------------------------------- C4

\* C4: in every reachable state, verts and faces of every object are both
\* present or both absent.
C4_MeshBothOrNeither ==
    \A g \in DOMAIN geoms : (geoms[g].verts = None) <=> (geoms[g].faces = None)

\* A decimation that ended in an error of the orientation routine after the
\* simplifier's mesh was stored.
C4_Witness ==
    /\ last.op \in {"decimate_mesh", "smooth_mesh"}
    /\ last.err = "Error: orient"
    /\ Now.faces # Before.faces
    /\ Now.verts # None

\* ---------------------------------------------------------------- C5

\* The extractor failed in the last call, a findSurface.
ExtractorFailed ==
    /\ last.op = "findSurface"
    /\ \E i \in CallsOf("marching_cubes") :
         marching_cubes(last.calls[i].arg[1], last.calls[i].arg[2], last.calls[i].arg[3])
           = { [ok |-> FALSE] }

\* C5 (as claimed): when the extractor fails inside findSurface, the error
\* propagates and the mesh cache is unset after the call.
C5_FailedExtractionUnsetsMesh ==
    ExtractorFailed =>
        /\ last.err = "ValueError: no isosurface"
        /\ Now.verts = None /\ Now.faces = None

\* C5 (amended): when the extractor fails inside findSurface, the error
\* propagates and the mesh cache is what it was before the call: unset if it
\* was unset, the earlier mesh otherwise.
C5_FailedExtractionKeepsMesh ==
    ExtractorFailed =>
        /\ last.err = "ValueError: no isosurface"
        /\ <<Now.verts, Now.faces, Now.normals, Now.values>>
             = <<Before.verts, Before.faces, Before.normals, Before.values>>

\* A failed findSurface on an object that holds the mesh of an earlier one.
C5_Witness ==
    /\ ExtractorFailed
    /\ Before.verts # None
    /\ Before.faces # None

\* ---------------------------------------------------------------- C6

\* What findSurface and evaluateDistance have in common: evaluate_grid is
\* called exactly when the grid cache was absent, the collaborator is called
\* last, on the cached field, with the design space's steps.
OnDemandThenCollaborator(fn, arg) ==
    /\ (Before.evaluated_grid = None) <=> HasCall("evaluate_grid")
    /\ Cardinality(CallsOf("evaluate_grid")) <= 1
    /\ Before.evaluated_grid # None => Now.evaluated_grid = Before.evaluated_grid
    /\ Now.evaluated_grid # None
    /\ CallsOf(fn) = { Len(last.calls) }
    /\ last.calls[Len(last.calls)].arg = arg

\* C6: findSurface and evaluateDistance call evaluate_grid exactly when the
\* grid cache is absent; the extractor or solver is called after that, with
\* the cached field and the design space's per-axis steps; on success the
\* result is stored and the grid cache is still present.
C6_GridOnDemand ==
    /\ last.op = "findSurface" =>
         /\ OnDemandThenCollaborator("marching_cubes",
                <<Val(Now.evaluated_grid), last.args.level,
                  <<ds.x_step, ds.y_step, ds.z_step>> >>)
         /\ last.err = Ok => Now.verts # None /\ Now.faces # None
    /\ last.op = "evaluateDistance" =>
         /\ OnDemandThenCollaborator("skfmm.distance",
                <<Val(Now.evaluated_grid), <<ds.x_step, ds.y_step, ds.z_step>> >>)
         /\ last.err = Ok =>
              /\ Now.evaluated_distance # None
              /\ Val(Now.evaluated_distance).phi = Val(Now.evaluated_grid)

\* A successful evaluateDistance on an object whose grid cache was populated
\* (and stale: the object has moved since).
C6_Witness ==
    /\ last.op = "evaluateDistance"
    /\ last.err = Ok
    /\ Before.evaluated_grid # None
    /\ Before.evaluated_distance = None
    /\ Now.x # 0

\* ---------------------------------------------------------------- C7

\* C7: decimate_mesh, subdivide_mesh and smooth_mesh with the mesh cache
\* absent fail with the no-mesh error, whatever the arguments, call nothing
\* and change nothing.
C7_NoMeshError ==
    (last.op \in {"decimate_mesh", "subdivide_mesh", "smooth_mesh"} /\ no_mesh(Before)) =>
        /\ last.err = "ValueError: no mesh"
        /\ last.calls = <<>>
        /\ geoms = last.pre
        /\ ds = last.pre_ds

\* smooth_mesh without a mesh, for no iterations and a factor outside (0,1).
C7_Witness ==
    /\ last.op = "smooth_mesh"
    /\ no_mesh(Before)
    /\ last.args.iterations = 0
    /\ ~ValidFactor(last.args.factor)

\* ---------------------------------------------------------------- C8

\* C8: save_mesh with a supported format extracts exactly when the mesh is
\* absent, then writes, then reopens the file; it never writes an absent
\* mesh, does not write after a failed extraction, and fails when the file
\* cannot be reopened.
C8_SaveMeshOrder ==
    (last.op = "save_mesh" /\ last.args.file_format \in DOMAIN formats) =>
        LET finds == CallsOf("findSurface")
            writes == CallsOf("igl.write_triangle_mesh")
            opens == CallsOf("open")
        IN  /\ (finds # {}) <=> no_mesh(Before)
            /\ Cardinality(finds) <= 1 /\ Cardinality(writes) <= 1 /\ Cardinality(opens) <= 1
            /\ \A f \in finds, w \in writes : f < w
            /\ \A w \in writes, o \in opens : w < o
            /\ opens # {} <=> writes # {}
            /\ \A w \in writes : last.calls[w].arg[2] # None /\ last.calls[w].arg[3] # None
            /\ HasCall("marching_cubes") /\ Now.verts = None => writes = {}
            /\ last.err = "ValueError: no isosurface" => writes = {}
            /\ \A o \in opens : ~last.calls[o].arg[2] => last.err = "FileNotFoundError"
            /\ last.err = Ok => \E o \in opens : last.calls[o].arg[2]

\* A save_mesh that extracted the surface, wrote, and could not reopen the file.
C8_Witness ==
    /\ last.op = "save_mesh"
    /\ no_mesh(Before)
    /\ HasCall("igl.write_triangle_mesh")
    /\ last.err = "FileNotFoundError"

\* ---------------------------------------------------------------- C9

\* The target the simplifier was given is round(face_count * factor): an
\* integer nearest to it, the even one of two, and at most face_count.
TargetIsRounded(target, face_count, factor) ==
    LET twice == 2 * (target * factor.den - face_count * factor.num)
    IN  /\ Abs(twice) <= factor.den
        /\ Abs(twice) = factor.den => target % 2 = 0
        /\ target <= face_count

\* C9 (as claimed): decimate_mesh with a factor outside (0,1) fails with the
\* invalid-argument error in every state, the state without a mesh included,
\* and does not call the simplifier; with a valid factor and a mesh the
\* simplifier's target is round(face_count * factor), at most face_count.
C9_InvalidFactorAlways ==
    last.op = "decimate_mesh" =>
        /\ ~ValidFactor(last.args.factor) =>
             last.err = "AssertionError: factor" /\ ~HasCall("igl.qslim")
        /\ ValidFactor(last.args.factor) /\ ~no_mesh(Before) =>
             /\ CallsOf("igl.qslim") = {1}
             /\ TargetIsRounded(last.calls[1].arg[3], Val(Before.faces), last.args.factor)

\* C9 (amended): with a factor outside (0,1), decimate_mesh fails with the
\* invalid-argument error when a mesh is present and with the no-mesh error
\* when none is, and does not call the simplifier in either case; with a
\* valid factor and a mesh the simplifier's target is
\* round(face_count * factor), at most face_count.
C9_InvalidFactorWithMesh ==
    last.op = "decimate_mesh" =>
        /\ ~ValidFactor(last.args.factor) =>
             /\ ~HasCall("igl.qslim")
             /\ last.err = IF no_mesh(Before) THEN "ValueError: no mesh"
                           ELSE "AssertionError: factor"
             /\ geoms = last.pre
        /\ ValidFactor(last.args.factor) /\ ~no_mesh(Before) =>
             /\ CallsOf("igl.qslim") = {1}
             /\ TargetIsRounded(last.calls[1].arg[3], Val(Before.faces), last.args.factor)

\* decimate_mesh with factor 1 on an object that holds a mesh.
C9_Witness ==
    /\ last.op = "decimate_mesh"
    /\ last.args.factor = Factor(1, 1)
    /\ ~no_mesh(Before)
    /\ last.err = "AssertionError: factor"

\* ---------------------------------------------------------------- C10

\* C10: a call on one object leaves the design space (coordinate arrays,
\* bounds, steps) and every other object bound to it unchanged.
C10_SiblingsUntouched ==
    last.op # "none" =>
        /\ ds = last.pre_ds
        /\ ds = DesignSpace
        /\ \A h \in DOMAIN last.pre : h # last.obj => geoms[h] = last.pre[h]

\* A conversion of one object while another object, with an evaluated grid,
\* is bound to the same design space.
C10_Witness ==
    /\ last.op = "convertToCylindrical"
    /\ \E h \in DOMAIN geoms :
         /\ h # last.obj
         /\ geoms[h].evaluated_grid # None
         /\ geoms[h].x_grid # Now.x_grid
         /\ geoms[h].x_grid = ds.x_grid

\* ---------------------------------------------------------------- C11

\* The coordinate arrays of an object, and the sample of evaluate_point over
\* the object's own arrays at its position.
Coords(self) == <<self.x_grid, self.y_grid, self.z_grid>>

Sampled(self) == evaluate_point(self, self.x_grid, self.y_grid, self.z_grid)

\* C11: convertToCylindrical and convertToSpherical each return normally,
\* replace the coordinate arrays by the transformed ones computed from the
\* arrays before the call (cylindrical: sqrt(x^2+y^2), atan2(y,x), z kept;
\* spherical: sqrt(x^2+y^2+z^2) and the two angles) and leave the grid cache
\* holding evaluate_point sampled over the new arrays.
C11_ConversionsComplete ==
    LET x == Before.x_grid
        y == Before.y_grid
        z == Before.z_grid
        planar == [i \in DOMAIN x |-> sqrt(x[i] * x[i] + y[i] * y[i])]
        radial == [i \in DOMAIN x |-> sqrt(x[i] * x[i] + y[i] * y[i] + z[i] * z[i])]
    IN  /\ last.op = "convertToCylindrical" =>
              /\ last.err = Ok
              /\ Coords(Now) = <<planar, [i \in DOMAIN x |-> arctan2(y[i], x[i])], z>>
              /\ Now.evaluated_grid = Some(Sampled(Now))
        /\ last.op = "convertToSpherical" =>
              /\ last.err = Ok
              /\ Coords(Now) = <<radial, [i \in DOMAIN x |-> arctan2(planar[i], z[i])],
                                 [i \in DOMAIN x |-> arctan2(y[i], x[i])]>>
              /\ Now.evaluated_grid = Some(Sampled(Now))

\* ---------------------------------------------------------------- C12

\* The axes on which the limits of an object lie outside the design space.
AxesOutside(self) ==
    LET axis(name, lim, lower, upper) ==
            IF SeqMin(Val(lim)) < lower \/ SeqMax(Val(lim)) > upper THEN <<name>> ELSE <<>>
    IN  axis("x", self.x_limits, ds.x_lower, ds.x_upper)
        \o axis("y", self.y_limits, ds.y_lower, ds.y_upper)
        \o axis("z", self.z_limits, ds.z_lower, ds.z_upper)

\* C12: compare_limits, and previewModel which calls it first, return
\* without raising in every state of the object, the state in which the
\* limits are still None included; compare_limits changes nothing and warns
\* about exactly the axes whose limits lie outside the design space.
C12_CompareLimitsNeverAborts ==
    /\ last.op = "compare_limits" =>
          /\ last.err = Ok
          /\ geoms = last.pre /\ ds = last.pre_ds
          /\ Before.x_limits # None => last.calls = <<Call("print", AxesOutside(Before))>>
    /\ (last.op = "previewModel" /\ last.args.mode \in {"volume", "surface"}) =>
          /\ last.err # "TypeError: limits"
          /\ Before.x_limits # None =>
                last.calls[1] = Call("compare_limits", AxesOutside(Before))

\* ---------------------------------------------------------------- C13

EndsWith(f, ext) ==
    Len(f) >= Len(ext) /\ SubSeq(f, Len(f) - Len(ext) + 1, Len(f)) = ext

\* The file name the export should use: the given name, with the extension
\* appended if the name does not end in it; the object's name plus the
\* extension if no name is given.
NameWithExtension(self, filename, ext) ==
    IF filename = None THEN self.name \o ext
    ELSE IF EndsWith(Val(filename), ext) THEN Val(filename)
    ELSE Val(filename) \o ext

\* C13: save_mesh and save_tet_mesh use the given file name as it is when it
\* ends in the extension ('.stl'/'.obj', '.msh'), append the extension once
\* when it does not, and use the object's name plus the extension when no
\* name is given; the name the writer gets is that name, set by this call.
C13_ExtensionOnlyIfMissing ==
    /\ (last.op = "save_mesh" /\ last.args.file_format \in DOMAIN formats) =>
          LET expected == Some(NameWithExtension(Before, last.args.filename,
                                                 formats[last.args.file_format]))
          IN  /\ Now.filename = expected
              /\ \A i \in CallsOf("igl.write_triangle_mesh") : last.calls[i].arg[1] = expected
    /\ last.op = "save_tet_mesh" =>
          LET expected == Some(NameWithExtension(Before, last.args.filename, Msh))
          IN  /\ Now.filename = expected
              /\ \A i \in CallsOf("tetra.save") : last.calls[i].arg[1] = expected

\* ---------------------------------------------------------------- C14

\* The last call, an evaluatePoint, built its two operands with the volume
\* fractions high and low and returned -(A_high(p) - A_low(p)) at its point p.
BuiltAndReturned(high, low) ==
    LET p == last.args
        a_high == GyroidSurface_evaluatePoint(GyroidSurface(Now, high), p.x, p.y, p.z)
        a_low == GyroidSurface_evaluatePoint(GyroidSurface(Now, low), p.x, p.y, p.z)
    IN  /\ SelectSeq(last.calls, LAMBDA c : c.fn = "GyroidSurface")
             = <<Call("GyroidSurface", <<high>>), Call("GyroidSurface", <<low>>)>>
        /\ last.calls[Len(last.calls)] = Call("return", 0 - (a_high - a_low))

\* C14 (as claimed): evaluatePoint of a double-network lattice of volume
\* fraction vf builds its operands with vfHigh = 0.5 + vf/2 and
\* vfLow = 0.5 - vf/2, so that vfHigh - vfLow = vf, and returns
\* -(A_high(p) - A_low(p)).
C14_FractionsFromVf ==
    last.op = "evaluatePoint" =>
        LET high == Half + Now.vf \div 2
            low == Half - Now.vf \div 2
        IN  high - low = Now.vf /\ BuiltAndReturned(high, low)

\* C14 (amended): evaluatePoint of a double-network lattice of volume
\* fraction vf builds its operands with vfHigh = 0.5 + (1 - vf)/2 and
\* vfLow = 0.5 - (1 - vf)/2, so that vfHigh - vfLow = 1 - vf, and returns
\* -(A_high(p) - A_low(p)).
C14_FractionsFromComplement ==
    last.op = "evaluatePoint" =>
        LET high == Half + (One - Now.vf) \div 2
            low == Half - (One - Now.vf) \div 2
        IN  high - low = One - Now.vf /\ BuiltAndReturned(high, low)

\* An evaluatePoint of a lattice of volume fraction 0.2, whose operands have
\* the fractions 0.9 and 0.1, away from the lattice's centre.
C14_Witness ==
    /\ last.op = "evaluatePoint"
    /\ Now.vf = 20
    /\ HasCall("GyroidSurface")
    /\ last.calls[1].arg = <<90>>
    /\ last.calls[2].arg = <<10>>
    /\ <<last.args.x, last.args.y, last.args.z>> # <<Now.x, Now.y, Now.z>>

\* ---------------------------------------------------------------- C15

\* C15: Geometry(None) fails with the error of the missing design space and
\* yields no object; Geometry(design_space) yields an object at position
\* (0,0,0) with the grid cache, the distance cache, verts, faces and the
\* limits unset and the coordinate arrays and steps of the design space.
C15_Construction ==
    last.op = "__init__" =>
        /\ last.args.design_space = "None" =>
              /\ last.err = "ValueError: no design space"
              /\ geoms = last.pre
              /\ last.obj \notin DOMAIN geoms
        /\ last.args.design_space # "None" =>
              /\ last.err = Ok
              /\ last.obj \in DOMAIN geoms
              /\ <<Now.x, Now.y, Now.z>> = <<0, 0, 0>>
              /\ Now.evaluated_grid = None /\ Now.evaluated_distance = None
              /\ Now.verts = None /\ Now.faces = None
              /\ <<Now.x_limits, Now.y_limits, Now.z_limits>> = <<None, None, None>>
              /\ Coords(Now) = <<ds.x_grid, ds.y_grid, ds.z_grid>>
              /\ <<Now.x_step, Now.y_step, Now.z_step>> = <<ds.x_step, ds.y_step, ds.z_step>>

\* A construction that yielded an object, on a design space whose axes have
\* different steps.
C15_Witness ==
    /\ last.op = "__init__"
    /\ last.err = Ok
    /\ last.obj \in DOMAIN geoms
    /\ ds.y_step # ds.z_step

\* ---------------------------------------------------------------- C16

\* C16: in every reachable state, a grid cache that is present holds
\* evaluate_point sampled over the object's coordinate arrays at its position.
C16_CachedFieldIsCurrent ==
    \A g \in DOMAIN geoms :
        geoms[g].evaluated_grid # None => Val(geoms[g].evaluated_grid) = Sampled(geoms[g])

\* ---------------------------------------------------------------- C17

\* A call of one of the two methods a round of smooth_mesh consists of.
IsRoundCall(c) == c.fn \in {"subdivide_mesh", "decimate_mesh"}

\* The decimate_mesh called at place j of the last trace did not get to its
\* report: no print follows it before the next round call.
DecimateFailedAt(j) ==
    /\ last.calls[j].fn = "decimate_mesh"
    /\ ~\E k \in (j + 1)..Len(last.calls) :
           /\ last.calls[k].fn = "print"
           /\ \A i \in (j + 1)..k : ~IsRoundCall(last.calls[i])

\* C17: smooth_mesh on a present mesh with a valid factor calls
\* subdivide_mesh (one division) and decimate_mesh(factor) in turn, starting
\* with subdivide_mesh; a normal return comes after exactly `iterations`
\* such pairs; with iterations = 0 nothing is called and nothing changes; a
\* decimate_mesh that fails is the last call of the loop and its error is
\* the error of smooth_mesh.
C17_SmoothRounds ==
    (last.op = "smooth_mesh" /\ ~no_mesh(Before) /\ ValidFactor(last.args.factor)) =>
        LET steps == SelectSeq(last.calls, IsRoundCall)
        IN  /\ \A i \in DOMAIN steps :
                  steps[i] = IF i % 2 = 1 THEN Call("subdivide_mesh", <<>>)
                             ELSE Call("decimate_mesh", <<last.args.factor>>)
            /\ \A i \in CallsOf("igl.loop") : last.calls[i].arg[3] = 1
            /\ Len(steps) <= 2 * last.args.iterations
            /\ last.err = Ok => Len(steps) = 2 * last.args.iterations
            /\ last.args.iterations = 0 =>
                  last.err = Ok /\ last.calls = <<>> /\ geoms = last.pre
            /\ \A j \in DOMAIN last.calls :
                  DecimateFailedAt(j) =>
                      /\ last.err # Ok
                      /\ \A k \in (j + 1)..Len(last.calls) : ~IsRoundCall(last.calls[k])

\* A smooth_mesh of two rounds that returned normally.
C17_Witness ==
    /\ last.op = "smooth_mesh"
    /\ ~no_mesh(Before)
    /\ ValidFactor(last.args.factor)
    /\ last.args.iterations = 2
    /\ last.err = Ok

\* ---------------------------------------------------------------- C18

\* C18: decimate_mesh with a valid factor on a present mesh, once the
\* simplifier has returned, does not fail on the simplifier's result and
\* leaves a mesh that is not empty, whatever the simplifier returned and
\* whatever the face count (round(face_count * factor) = 0 included).
C18_DegradedNotFailed ==
    (/\ last.op = "decimate_mesh"
     /\ ~no_mesh(Before)
     /\ ValidFactor(last.args.factor)
     /\ last.err # "Error: qslim") =>
        /\ last.err # "AssertionError: qslim failure"
        /\ Val(Now.faces) > 0
        /\ Val(Now.verts) > 0

\* ---------------------------------------------------------------- C19

\* The collaborators outside the object.
External(c) == ~IsRoundCall(c) /\ c.fn \notin {"evaluate_grid", "findSurface", "compare_limits",
                                              "set_limits", "evaluate_point", "print"}

\* The last call raised, called no external collaborator and left the grid
\* cache, the mesh cache, the distance cache and the file name as they were.
FailedWithoutEffect ==
    /\ last.err # Ok
    /\ \A i \in DOMAIN last.calls : ~External(last.calls[i])
    /\ <<Now.evaluated_grid, Now.evaluated_distance, Now.filename>>
         = <<Before.evaluated_grid, Before.evaluated_distance, Before.filename>>
    /\ <<Now.verts, Now.faces, Now.normals, Now.values>>
         = <<Before.verts, Before.faces, Before.normals, Before.values>>

\* C19: save_mesh with an unsupported format, previewModel with a mode other
\* than 'volume' and 'surface', decimate_mesh with a factor outside (0,1) and
\* smooth_mesh with a factor outside (0,1) (at least one iteration, mesh
\* present) each raise before they call a collaborator or change a cache or
\* the file name.
C19_InvalidArgumentNoEffect ==
    /\ (last.op = "save_mesh" /\ last.args.file_format \notin DOMAIN formats)
          => FailedWithoutEffect
    /\ (last.op = "previewModel" /\ last.args.mode \notin {"volume", "surface"})
          => FailedWithoutEffect
    /\ (last.op = "decimate_mesh" /\ ~ValidFactor(last.args.factor))
          => FailedWithoutEffect
    /\ (/\ last.op = "smooth_mesh"
        /\ ~ValidFactor(last.args.factor)
        /\ last.args.iterations >= 1
        /\ ~no_mesh(Before))
          => FailedWithoutEffect

\* ---------------------------------------------------------------- C20

\* C20: in every reachable state in which the mesh cache is present, normals
\* and values hold one entry for each vertex of verts.
C20_NormalsMatchVerts ==
    \A g \in DOMAIN geoms :
        ~no_mesh(geoms[g]) =>
            /\ geoms[g].normals = geoms[g].verts
            /\ geoms[g].values = geoms[g].verts

====
